---------------------------- MODULE Spec2Model ----------------------------
(***************************************************************************)
(* strtoi_generic.h: strtoi_base_generic() / strtoi_generic(), the         *)
(* errno-free string-to-integer conversion for any C integer type.         *)
(*                                                                         *)
(* The model keeps the real widths of the C types (LP64: char 8, short 16, *)
(* int 32, long and long long 64 bits).  TLC's integers are 32 bits wide,  *)
(* so every C value is carried as a natural number written in limbs of 16  *)
(* bits (little-endian sequence, no leading zero limb; <<>> is zero) plus  *)
(* a sign.  Texts are sequences of one-character strings.                  *)
(***************************************************************************)
EXTENDS Integers, Sequences, FiniteSets

(***************************************************************************)
(* Natural numbers of any size.                                            *)
(***************************************************************************)
LimbBase == 2^16

RECURSIVE Norm(_)
Norm(s) ==
  IF s = <<>> THEN <<>>
  ELSE IF s[Len(s)] = 0 THEN Norm(SubSeq(s, 1, Len(s) - 1))
  ELSE s

RECURSIVE NatOf(_)
NatOf(k) ==
  IF k = 0 THEN <<>> ELSE <<k % LimbBase>> \o NatOf(k \div LimbBase)

\* n * m + c, for small m and c
RECURSIVE MulAdd(_, _, _)
MulAdd(n, m, c) ==
  IF n = <<>> THEN NatOf(c)
  ELSE LET t == Head(n) * m + c
       IN  <<t % LimbBase>> \o MulAdd(Tail(n), m, t \div LimbBase)

RECURSIVE CmpFrom(_, _, _)
CmpFrom(a, b, i) ==
  IF i = 0 THEN 0
  ELSE IF a[i] < b[i] THEN -1
  ELSE IF a[i] > b[i] THEN 1
  ELSE CmpFrom(a, b, i - 1)

\* -1, 0, 1 as a < b, a = b, a > b
NatCmp(a, b) ==
  IF Len(a) < Len(b) THEN -1
  ELSE IF Len(a) > Len(b) THEN 1
  ELSE CmpFrom(a, b, Len(a))

NatLT(a, b) == NatCmp(a, b) < 0
NatLE(a, b) == NatCmp(a, b) <= 0

RECURSIVE SubFrom(_, _, _, _)
SubFrom(a, b, i, borrow) ==
  IF i > Len(a) THEN <<>>
  ELSE LET bi == IF i <= Len(b) THEN b[i] ELSE 0
           t  == a[i] - bi - borrow
       IN  IF t < 0
           THEN <<t + LimbBase>> \o SubFrom(a, b, i + 1, 1)
           ELSE <<t>> \o SubFrom(a, b, i + 1, 0)

\* a - b, for a >= b
NatSub(a, b) == Norm(SubFrom(a, b, 1, 0))

\* quotient and remainder of n by a small d, from the top limb down
RECURSIVE DivFrom(_, _, _, _)
DivFrom(n, d, i, rem) ==
  IF i = 0 THEN [q |-> <<>>, r |-> rem]
  ELSE LET t    == rem * LimbBase + n[i]
           rest == DivFrom(n, d, i - 1, t % d)
       IN  [q |-> rest.q \o <<t \div d>>, r |-> rest.r]

NatDivMod(n, d) ==
  LET x == DivFrom(n, d, Len(n), 0) IN [q |-> Norm(x.q), r |-> x.r]

Pow2(k) ==
  [i \in 1..(k \div 16 + 1) |-> IF i = k \div 16 + 1 THEN 2^(k % 16) ELSE 0]

\* n mod 2^w: the low w bits
NatModPow2(n, w) ==
  LET full == w \div 16
      part == w % 16
      m    == IF part = 0 THEN full ELSE full + 1
  IN  Norm([i \in 1..(IF Len(n) < m THEN Len(n) ELSE m) |->
              IF i <= full THEN n[i] ELSE n[i] % 2^part])

(***************************************************************************)
(* Integers: a sign and a magnitude; zero is never negative.               *)
(***************************************************************************)
Pos(n) == [neg |-> FALSE, mag |-> n]
Neg(n) == [neg |-> n # <<>>, mag |-> n]
IntOf(k) == IF k < 0 THEN Neg(NatOf(-k)) ELSE Pos(NatOf(k))

IntLT(a, b) ==
  IF a.neg /\ ~b.neg THEN TRUE
  ELSE IF ~a.neg /\ b.neg THEN FALSE
  ELSE IF a.neg THEN NatLT(b.mag, a.mag)
  ELSE NatLT(a.mag, b.mag)

IntLE(a, b) == a = b \/ IntLT(a, b)


(***************************************************************************)
(* Characters.                                                             *)
(***************************************************************************)
\* isspace() in the "C" locale; "VT" stands for the vertical tab character
Space == {" ", "\t", "\n", "VT", "\f", "\r"}

DigitChars ==
  <<"0", "1", "2", "3", "4", "5", "6", "7", "8", "9",
    "a", "b", "c", "d", "e", "f", "g", "h", "i", "j", "k", "l", "m",
    "n", "o", "p", "q", "r", "s", "t", "u", "v", "w", "x", "y", "z">>

UpperChars ==
  <<"0", "1", "2", "3", "4", "5", "6", "7", "8", "9",
    "A", "B", "C", "D", "E", "F", "G", "H", "I", "J", "K", "L", "M",
    "N", "O", "P", "Q", "R", "S", "T", "U", "V", "W", "X", "Y", "Z">>

NoDigit == 99

\* every character a text is made of, and the terminating NUL
NUL == "NUL"
Chars ==
  {DigitChars[i] : i \in 1..36} \cup {UpperChars[i] : i \in 1..36}
    \cup Space \cup {"-", "+", "?", NUL}

\* the value of c as a digit (letters in either case count from 10), NoDigit
\* if c is no digit
DigitTable ==
  [c \in Chars |->
     IF \E i \in 1..36 : DigitChars[i] = c \/ UpperChars[i] = c
     THEN (CHOOSE i \in 1..36 : DigitChars[i] = c \/ UpperChars[i] = c) - 1
     ELSE NoDigit]

DigitVal(c) == DigitTable[c]

(***************************************************************************)
(* <errno.h> and <limits.h> on Linux, LP64.                                *)
(***************************************************************************)
EINVAL == 22
ERANGE == 34
ENOTSUP == 95

ULLONG_MAX == NatSub(Pow2(64), NatOf(1))
LLONG_MAX == NatSub(Pow2(63), NatOf(1))

(***************************************************************************)
(* The destination types: what *res may be declared as.  "char" and        *)
(* "float" stand for the types _Generic sends to its default branch.       *)
(***************************************************************************)
SignedTypes ==
  {"signed char", "signed short", "signed int", "signed long",
   "signed long long"}
UnsignedTypes ==
  {"unsigned char", "unsigned short", "unsigned int", "unsigned long",
   "unsigned long long"}
OtherTypes == {"char", "float"}
Types == SignedTypes \cup UnsignedTypes \cup OtherTypes

\* enum strtoi_generic_typename
STRTOI_GENERIC_TYPENAME_OTHER == 0
STRTOI_GENERIC_TYPENAME_SIGNED == 1
STRTOI_GENERIC_TYPENAME_UNSIGNED == 127

STRTOI_GENERIC_TYPENAME(T) ==
  CASE T = "signed char"        -> STRTOI_GENERIC_TYPENAME_SIGNED + 1
    [] T = "signed short"       -> STRTOI_GENERIC_TYPENAME_SIGNED + 2
    [] T = "signed int"         -> STRTOI_GENERIC_TYPENAME_SIGNED + 3
    [] T = "signed long"        -> STRTOI_GENERIC_TYPENAME_SIGNED + 4
    [] T = "signed long long"   -> STRTOI_GENERIC_TYPENAME_SIGNED + 5
    [] T = "unsigned char"      -> STRTOI_GENERIC_TYPENAME_UNSIGNED + 1
    [] T = "unsigned short"     -> STRTOI_GENERIC_TYPENAME_UNSIGNED + 2
    [] T = "unsigned int"       -> STRTOI_GENERIC_TYPENAME_UNSIGNED + 3
    [] T = "unsigned long"      -> STRTOI_GENERIC_TYPENAME_UNSIGNED + 4
    [] T = "unsigned long long" -> STRTOI_GENERIC_TYPENAME_UNSIGNED + 5
    [] OTHER                    -> STRTOI_GENERIC_TYPENAME_OTHER

\* the width in bits of the integer types that have a min/max entry
Width(T) ==
  CASE T \in {"char", "signed char", "unsigned char"}            -> 8
    [] T \in {"signed short", "unsigned short"}                  -> 16
    [] T \in {"signed int", "unsigned int"}                      -> 32
    [] T \in {"signed long", "unsigned long",
              "signed long long", "unsigned long long"}          -> 64

\* (long long)CHAR_MIN, SCHAR_MIN, ..., LLONG_MIN; 0 for the unsigned types
\* and for the default branch.  Plain char is signed on this platform.
STRTOI_GENERIC_INTMIN(T) ==
  IF T \in SignedTypes \cup {"char"} THEN Neg(Pow2(Width(T) - 1))
  ELSE Pos(<<>>)

\* (unsigned long long)CHAR_MAX, ..., ULLONG_MAX; 0 for the default branch
STRTOI_GENERIC_INTMAX(T) ==
  IF T \in SignedTypes \cup {"char"}
  THEN NatSub(Pow2(Width(T) - 1), NatOf(1))
  ELSE IF T \in UnsignedTypes THEN NatSub(Pow2(Width(T)), NatOf(1))
  ELSE <<>>

(***************************************************************************)
(* Conversions between the C integer types (two's complement, the          *)
(* conversion to a signed type wraps as gcc and clang define it).          *)
(***************************************************************************)
\* (unsigned long long)x for a long long x
ToULL(x) == IF x.neg THEN NatSub(Pow2(64), x.mag) ELSE x.mag

\* (long long)u for an unsigned long long u
ToLL(u) == IF NatLT(u, Pow2(63)) THEN Pos(u) ELSE Neg(NatSub(Pow2(64), u))

\* (typeof(*_res))num
CastTo(T, num) ==
  IF T = "float" THEN num
  ELSE LET u == NatModPow2(ToULL(num), Width(T))
       IN  IF T \in SignedTypes \cup {"char"} /\ NatLE(Pow2(Width(T) - 1), u)
           THEN Neg(NatSub(Pow2(Width(T)), u))
           ELSE Pos(u)

(***************************************************************************)
(* strtoull() and strtoll() of the C library, as ISO C and glibc define    *)
(* them (the "0b" prefix of C23 is not accepted).  A result is             *)
(*   val : the value returned,                                             *)
(*   end : how many characters of str were consumed, that is *endptr - str *)
(*         (EndUnset when *endptr is not written),                         *)
(*   err : the value stored in errno (0: errno is left alone).             *)
(***************************************************************************)
EndUnset == -1

\* str[i], the terminating NUL past the last character
At(str, i) == IF i >= 1 /\ i <= Len(str) THEN str[i] ELSE NUL

ValidBase(base) == base = 0 \/ (base >= 2 /\ base <= 36)

RECURSIVE SkipSpace(_, _)
SkipSpace(str, i) ==
  IF At(str, i) \in Space THEN SkipSpace(str, i + 1) ELSE i

\* the longest run of digits of base b from index i on, accumulated exactly
RECURSIVE Digits(_, _, _, _)
Digits(str, i, b, acc) ==
  IF DigitVal(At(str, i)) < b
  THEN Digits(str, i + 1, b, MulAdd(acc, b, DigitVal(At(str, i))))
  ELSE [next |-> i, val |-> acc]

\* the subject sequence: white space, a sign, "0x" for base 0 or 16, digits
Subject(str, base) ==
  LET i0  == SkipSpace(str, 1)
      i1  == IF At(str, i0) \in {"-", "+"} THEN i0 + 1 ELSE i0
      hex == /\ base \in {0, 16}
             /\ At(str, i1) = "0"
             /\ At(str, i1 + 1) \in {"x", "X"}
      b   == IF base # 0 THEN base
             ELSE IF hex THEN 16
             ELSE IF At(str, i1) = "0" THEN 8
             ELSE 10
      i2  == IF hex THEN i1 + 2 ELSE i1
      d   == Digits(str, i2, b, <<>>)
  IN  IF d.next > i2
      THEN [neg |-> At(str, i0) = "-", mag |-> d.val, end |-> d.next - 1]
      ELSE IF hex
      \* "0x" with no hex digit behind it: the "0" alone is the number
      THEN [neg |-> At(str, i0) = "-", mag |-> <<>>, end |-> i1]
      ELSE [neg |-> FALSE, mag |-> <<>>, end |-> 0]

strtoull(str, base) ==
  IF ~ValidBase(base)
  THEN [val |-> <<>>, end |-> EndUnset, err |-> EINVAL]
  ELSE LET s == Subject(str, base)
       IN  IF NatLT(ULLONG_MAX, s.mag)
           THEN [val |-> ULLONG_MAX, end |-> s.end, err |-> ERANGE]
           ELSE [val |-> IF s.neg
                         THEN NatModPow2(NatSub(Pow2(64), s.mag), 64)
                         ELSE s.mag,
                 end |-> s.end, err |-> 0]

strtoll(str, base) ==
  IF ~ValidBase(base)
  THEN [val |-> Pos(<<>>), end |-> EndUnset, err |-> EINVAL]
  ELSE LET s == Subject(str, base)
       IN  IF s.neg /\ NatLT(Pow2(63), s.mag)
           THEN [val |-> Neg(Pow2(63)), end |-> s.end, err |-> ERANGE]
           ELSE IF ~s.neg /\ NatLT(LLONG_MAX, s.mag)
           THEN [val |-> Pos(LLONG_MAX), end |-> s.end, err |-> ERANGE]
           ELSE [val |-> IF s.neg THEN Neg(s.mag) ELSE Pos(s.mag),
                 end |-> s.end, err |-> 0]

\* strchr(str, c) != NULL
strchr(str, c) == \E i \in 1..Len(str) : str[i] = c

(***************************************************************************)
(* Pointers into memory.  endptr is a local that is not initialised: when  *)
(* the parser does not write it (an invalid base) its value is whatever    *)
(* the stack held: str itself, the address of a zero byte, the address of  *)
(* a non-zero byte, or an address that is not mapped.                      *)
(***************************************************************************)
PtrInto(off) == [obj |-> "str", off |-> off]
Indeterminate ==
  {PtrInto(0), [obj |-> "zero byte", off |-> 0],
   [obj |-> "other byte", off |-> 0], [obj |-> "unmapped", off |-> 0]}

\* whether reading *p traps
Traps(p) == p.obj = "unmapped"

\* *p
Deref(str, p) ==
  IF p.obj = "str" THEN At(str, p.off + 1)
  ELSE IF p.obj = "zero byte" THEN NUL
  ELSE "?"

(***************************************************************************)
(* strtoi_generic_func()                                                   *)
(***************************************************************************)
Unset == "unset"

\* a slip: the type check left out
Unsupported_Never(type) == FALSE

\* if (!type)
Unsupported(type) == type = STRTOI_GENERIC_TYPENAME_OTHER

\* a slip: errno not cleared before the parser runs
ClearErrno_Skip(e) == e

\* errno = 0;
ClearErrno(e) == 0

\* a slip: the parser's own errors other than ERANGE not looked at
FormatError_NoErrnoClause(str, endptr, e) ==
  \/ endptr = PtrInto(0)
  \/ Deref(str, endptr) # NUL

\* a slip: what follows the number not looked at
FormatError_NoTrailingCheck(str, endptr, e) ==
  \/ endptr = PtrInto(0)
  \/ (e # 0 /\ e # ERANGE)

\* a slip: an overflow of the parser reported before the format is checked
FormatError_RangeFirst(str, endptr, e) ==
  /\ e # ERANGE
  /\ \/ endptr = PtrInto(0)
     \/ Deref(str, endptr) # NUL
     \/ e # 0

\* str == endptr || *endptr != '\0' || (errno && errno != ERANGE)
FormatError(str, endptr, e) ==
  \/ endptr = PtrInto(0)
  \/ Deref(str, endptr) # NUL
  \/ (e # 0 /\ e # ERANGE)

\* a slip: the '-' in the text not looked for
RangeError_NoStrchr(str, ret, min, max, type) ==
  IF type > STRTOI_GENERIC_TYPENAME_UNSIGNED
  THEN NatLT(max, ToULL(ret))
  ELSE IntLT(ret, min) \/ (IntLT(Pos(<<>>), ret) /\ NatLT(max, ToULL(ret)))

\* a slip: a negative number told by ret < 0, not by the '-' in the text
RangeError_SignOfRet(str, ret, min, max, type) ==
  IF type > STRTOI_GENERIC_TYPENAME_UNSIGNED
  THEN ret.neg \/ NatLT(max, ToULL(ret))
  ELSE IntLT(ret, min) \/ (IntLT(Pos(<<>>), ret) /\ NatLT(max, ToULL(ret)))

\* a slip: ret > 0 not asked before ret is compared as unsigned
RangeError_NoPositiveGuard(str, ret, min, max, type) ==
  IF type > STRTOI_GENERIC_TYPENAME_UNSIGNED
  THEN strchr(str, "-") \/ NatLT(max, ToULL(ret))
  ELSE IntLT(ret, min) \/ NatLT(max, ToULL(ret))

\* a slip: >= and <= where > and < are meant
RangeError_OffByOne(str, ret, min, max, type) ==
  IF type > STRTOI_GENERIC_TYPENAME_UNSIGNED
  THEN strchr(str, "-") \/ NatLE(max, ToULL(ret))
  ELSE IntLE(ret, min) \/ (IntLT(Pos(<<>>), ret) /\ NatLE(max, ToULL(ret)))

\* the two range checks against the destination's min and max
RangeError(str, ret, min, max, type) ==
  IF type > STRTOI_GENERIC_TYPENAME_UNSIGNED
  THEN strchr(str, "-") \/ NatLT(max, ToULL(ret))
  ELSE IntLT(ret, min) \/ (IntLT(Pos(<<>>), ret) /\ NatLT(max, ToULL(ret)))

\* rc: the return value; num: what *num holds; errno: errno at the end;
\* parser: the C library parser that ran; trap: the read of *endptr trapped
strtoi_generic_func(str, min, max, type, base, errno0, endptr0) ==
  IF Unsupported(type)
  THEN [rc |-> -ENOTSUP, num |-> Unset, errno |-> errno0,
        parser |-> "none", trap |-> FALSE]
  ELSE LET unsigned == type > STRTOI_GENERIC_TYPENAME_UNSIGNED
           p        == IF unsigned THEN strtoull(str, base)
                       ELSE strtoll(str, base)
           ret      == IF unsigned THEN ToLL(p.val) ELSE p.val
           e        == IF p.err # 0 THEN p.err ELSE ClearErrno(errno0)
           endptr   == IF p.end = EndUnset THEN endptr0 ELSE PtrInto(p.end)
           out(rc, num, trap) ==
             [rc |-> rc, num |-> num, errno |-> e,
              parser |-> IF unsigned THEN "strtoull" ELSE "strtoll",
              trap |-> trap]
       IN  IF endptr # PtrInto(0) /\ Traps(endptr)
           THEN out(0, Unset, TRUE)
           ELSE IF FormatError(str, endptr, e) THEN out(-EINVAL, Unset, FALSE)
           ELSE IF e = ERANGE THEN out(-ERANGE, Unset, FALSE)
           ELSE IF RangeError(str, ret, min, max, type)
           THEN out(-ERANGE, Unset, FALSE)
           ELSE out(0, ret, FALSE)

(***************************************************************************)
(* The inputs of a call.                                                   *)
(***************************************************************************)
MaxLen == 3

Alphabet == {" ", "-", "+", "0", "1", "9", "x"}

\* every text over the alphabet of at most MaxLen characters
ShortTexts == UNION {[1..n -> Alphabet] : n \in 0..MaxLen}

\* x + 1 and x - 1
Succ(x) ==
  IF x.neg THEN Neg(NatSub(x.mag, NatOf(1))) ELSE Pos(MulAdd(x.mag, 1, 1))
Pred(x) ==
  IF x.neg \/ x.mag = <<>> THEN Neg(MulAdd(x.mag, 1, 1))
  ELSE Pos(NatSub(x.mag, NatOf(1)))

IntegerTypes == SignedTypes \cup UnsignedTypes

\* the least and the greatest value of an integer type
MinOf(T) == IF T \in SignedTypes THEN Neg(Pow2(Width(T) - 1)) ELSE Pos(<<>>)
MaxOf(T) ==
  IF T \in SignedTypes THEN Pos(NatSub(Pow2(Width(T) - 1), NatOf(1)))
  ELSE Pos(NatSub(Pow2(Width(T)), NatOf(1)))

InRange(T, v) == IntLE(MinOf(T), v) /\ IntLE(v, MaxOf(T))

\* the ends of every type's range, their neighbours, and a value far
\* beyond 64 bits
EdgeValues ==
  UNION {{Pred(MinOf(T)), MinOf(T), Succ(MinOf(T)),
          Pred(MaxOf(T)), MaxOf(T), Succ(MaxOf(T))} : T \in IntegerTypes}
  \cup {Pos(Pow2(70)), Neg(Pow2(70))}

\* the digits of n in base b, most significant first, as printf writes them
RECURSIVE FormatNat(_, _)
FormatNat(n, b) ==
  LET qr == NatDivMod(n, b)
  IN  IF qr.q = <<>> THEN <<DigitChars[qr.r + 1]>>
      ELSE FormatNat(qr.q, b) \o <<DigitChars[qr.r + 1]>>

Format(v, b) ==
  IF v.neg THEN <<"-">> \o FormatNat(v.mag, b) ELSE FormatNat(v.mag, b)

FormatBases == {10, 16}

\* an edge value written out, after a blank or not, before a letter or not
EdgeTexts ==
  {pre \o Format(v, b) \o suf :
     pre \in {<<>>, <<" ">>}, v \in EdgeValues, b \in FormatBases,
     suf \in {<<>>, <<"x">>}}

Texts == ShortTexts \cup EdgeTexts

Bases == {0, 1, 2, 8, 10, 16, 36, 37}

(***************************************************************************)
(* The caller's state and the two macros.                                  *)
(***************************************************************************)
VARIABLES
  str,     \* the text handed to the call
  T,       \* the declared type of *res
  res,     \* the value of the caller's variable *res
  errno,   \* the thread's errno
  pc,      \* "ready", "returned", or "trapped" (the process died in the call)
  base,    \* the base the call was made with
  rc,      \* what the call returned
  parser   \* the C library parser the call ran, "none" if it ran none

vars == <<str, T, res, errno, pc, base, rc, parser>>

\* what the caller's variable holds before the call
Before == IntOf(42)

Init ==
  /\ str \in Texts
  /\ T \in Types
  /\ res = Before
  /\ errno \in {0, ERANGE}
  /\ pc = "ready"
  /\ base = 0
  /\ rc = 0
  /\ parser = "none"

\* a slip: the destination cleared when the call fails
Store_ClearOnError(type, ret, num, old) ==
  IF ret >= 0 THEN CastTo(type, num) ELSE IntOf(0)

\* if (ret >= 0) *_res = (typeof(*_res))num;
Store(type, ret, num, old) == IF ret >= 0 THEN CastTo(type, num) ELSE old

\* what endptr may hold when the call starts: its indeterminate value shows
\* only on the path where the parser leaves it unwritten
Uninitialised(b) == IF ValidBase(b) THEN {PtrInto(0)} ELSE Indeterminate

strtoi_base_generic(b) ==
  /\ pc = "ready"
  /\ \E garbage \in Uninitialised(b) :
       \E r \in {strtoi_generic_func(str, STRTOI_GENERIC_INTMIN(T),
                                     STRTOI_GENERIC_INTMAX(T),
                                     STRTOI_GENERIC_TYPENAME(T), b, errno,
                                     garbage)} :
           /\ pc' = IF r.trap THEN "trapped" ELSE "returned"
           /\ rc' = r.rc
           /\ res' = IF r.trap THEN res ELSE Store(T, r.rc, r.num, res)
           /\ errno' = r.errno
           /\ parser' = r.parser
  /\ base' = b
  /\ UNCHANGED <<str, T>>

strtoi_generic == strtoi_base_generic(0)

Next ==
  \/ \E b \in Bases : strtoi_base_generic(b)
  \/ strtoi_generic

Spec == Init /\ [][Next]_vars

(***************************************************************************)
(* What a text denotes, read off the grammar of a C integer literal as a   *)
(* whole (not by scanning a prefix): white space, an optional sign, then   *)
(* digits of the base, or "0x" and hexadecimal digits for base 0 and 16.   *)
(***************************************************************************)
LeadingSpaces(text) ==
  CHOOSE k \in 0..Len(text) :
    /\ \A i \in 1..k : text[i] \in Space
    /\ k = Len(text) \/ text[k + 1] \notin Space

Trimmed(text) == SubSeq(text, LeadingSpaces(text) + 1, Len(text))

Negative(text) == Trimmed(text) # <<>> /\ Trimmed(text)[1] = "-"

\* the text behind the white space and the sign
Body(text) ==
  IF Trimmed(text) # <<>> /\ Trimmed(text)[1] \in {"+", "-"}
  THEN Tail(Trimmed(text))
  ELSE Trimmed(text)

AllDigits(d, b) == \A i \in 1..Len(d) : DigitVal(d[i]) < b

\* base 0 reads a leading 0 as octal and anything else as decimal
EffectiveBase(d, b) ==
  IF b # 0 THEN b ELSE IF d # <<>> /\ d[1] = "0" THEN 8 ELSE 10

PlainDigits(d, b) == d # <<>> /\ AllDigits(d, EffectiveBase(d, b))

HexDigits(d, b) ==
  /\ b \in {0, 16}
  /\ Len(d) >= 3
  /\ d[1] = "0"
  /\ d[2] \in {"x", "X"}
  /\ AllDigits(SubSeq(d, 3, Len(d)), 16)

\* sign and digits of the base, nothing else
WellFormed(text, b) == PlainDigits(Body(text), b)

\* any complete integer literal of the base
Numeral(text, b) == PlainDigits(Body(text), b) \/ HexDigits(Body(text), b)

RECURSIVE ValueOf(_, _)
ValueOf(d, b) ==
  IF d = <<>> THEN <<>>
  ELSE MulAdd(ValueOf(SubSeq(d, 1, Len(d) - 1), b), b, DigitVal(d[Len(d)]))

Magnitude(text, b) ==
  IF HexDigits(Body(text), b)
  THEN ValueOf(SubSeq(Body(text), 3, Len(Body(text))), 16)
  ELSE ValueOf(Body(text), EffectiveBase(Body(text), b))

\* the integer a numeral denotes
Denoted(text, b) ==
  IF Negative(text) THEN Neg(Magnitude(text, b)) ELSE Pos(Magnitude(text, b))

HasMinus(text) == \E i \in 1..Len(text) : text[i] = "-"

Returned == pc = "returned"
Supported == T \in IntegerTypes

(***************************************************************************)
(* The claims.                                                             *)
(***************************************************************************)

\* C1: for an unsigned destination, a text with a '-' anywhere in it never
\* makes the call return success, whatever the base, and nothing (so no
\* wrapped value of strtoull's negation) is stored in the destination.
C1_NegativeNeverSucceeds ==
  (pc # "ready" /\ T \in UnsignedTypes /\ HasMinus(str))
    => (Returned => rc < 0) /\ res = Before

C1_Witness ==
  /\ Returned
  /\ T = "unsigned long long"
  /\ str = <<" ", "-", "1">>
  /\ base = 10
  /\ rc = -ERANGE

\* a '-' and then nothing but digits of the base, maybe none
MinusThenDigits(text, b) ==
  /\ text # <<>>
  /\ text[1] = "-"
  /\ AllDigits(Tail(text), EffectiveBase(Tail(text), b))

\* C2 as claimed: for an unsigned destination every text that begins with
\* '-', digits behind it or not (so also the bare "-"), is out of range.
C2_Original ==
  (Returned /\ T \in UnsignedTypes /\ ValidBase(base)
     /\ MinusThenDigits(str, base))
    => rc = -ERANGE

\* C2 as amended: for an unsigned destination and a valid base, a '-' with
\* one or more digits of the base behind it (and nothing else) is out of
\* range; the bare "-" has no digits and is an invalid format.
C2_MinusDigitsOutOfRange ==
  (Returned /\ T \in UnsignedTypes /\ ValidBase(base)
     /\ MinusThenDigits(str, base))
    => /\ rc = (IF Len(str) >= 2 THEN -ERANGE ELSE -EINVAL)
       /\ res = Before

C2_Witness ==
  /\ Returned
  /\ T = "unsigned char"
  /\ str = <<"-", "0">>
  /\ base = 0
  /\ rc = -ERANGE

\* C3: for a supported type, a valid base and a text of sign and digits of
\* the base (no '-' for an unsigned type) denoting v, the call succeeds and
\* stores exactly v when v is in the type's range, and is out of range
\* otherwise, also when v does not fit the 64-bit accumulator.
C3_ValueOrOutOfRange ==
  (Returned /\ Supported /\ ValidBase(base) /\ WellFormed(str, base)
     /\ (T \in UnsignedTypes => ~HasMinus(str)))
    => IF InRange(T, Denoted(str, base))
       THEN rc = 0 /\ res = Denoted(str, base)
       ELSE rc = -ERANGE /\ res = Before

C3_Witness ==
  /\ Returned
  /\ T = "unsigned long long"
  /\ base = 10
  /\ str = Format(Succ(MaxOf("unsigned long long")), 10)
  /\ rc = -ERANGE
  /\ errno = ERANGE

\* text is what printf writes for the value it denotes in decimal: no white
\* space, no '+', no leading zero, no "-0"
Decimal(text) ==
  WellFormed(text, 10) /\ text = Format(Denoted(text, 10), 10)

\* C4: a value v of a supported type, written in decimal and parsed with
\* base 0 (strtoi_generic), comes back: success, and exactly v stored.
C4_RoundTrip ==
  (Returned /\ Supported /\ base = 0 /\ Decimal(str)
     /\ InRange(T, Denoted(str, 10)))
    => rc = 0 /\ res = Denoted(str, 10)

C4_Witness ==
  /\ Returned
  /\ base = 0
  /\ T = "signed long long"
  /\ str = Format(MinOf("signed long long"), 10)
  /\ rc = 0
  /\ res = MinOf("signed long long")

C6_MalformedIsInvalid ==
  (Returned /\ Supported /\ ValidBase(base) /\ ~Numeral(str, base))
    => rc = -EINVAL /\ res = Before

C6_Witness ==
  /\ Returned
  /\ T = "signed int"
  /\ base = 10
  /\ str = <<"1", "1", "x">>
  /\ rc = -EINVAL

\* C7 as claimed: errno has after the call the value it had before it.
C7_Original == [][errno' = errno]_vars

\* what the call may do when errno holds e as it starts
Outcomes(b, e) ==
  {strtoi_generic_func(str, STRTOI_GENERIC_INTMIN(T),
                       STRTOI_GENERIC_INTMAX(T),
                       STRTOI_GENERIC_TYPENAME(T), b, e, g) :
     g \in Uninitialised(b)}

\* one call, as C7 is amended
C7_Step ==
  pc' # pc =>
    /\ ~Supported => errno' = errno
    /\ Supported => errno' \in {0, ERANGE, EINVAL}
    /\ (pc' = "returned" /\ rc' = 0) => errno' = 0
    /\ \A e \in {0, EINVAL, ERANGE, ENOTSUP} :
         \E r \in Outcomes(base', e) :
           /\ r.trap = (pc' = "trapped")
           /\ ~r.trap => r.rc = rc' /\ Store(T, r.rc, r.num, res) = res'

\* C7 as amended: the result does not depend on what errno held before the
\* call (whatever errno was, the same return value and the same stored
\* value are possible), so errno is not needed to read the result; but the
\* call writes errno: with a supported type it leaves 0, ERANGE or EINVAL
\* there, 0 whenever it succeeds, and only the unsupported-type path leaves
\* errno as it was.
C7_ErrnoWrittenNotRead == [][C7_Step]_vars

C7_Witness ==
  /\ Returned
  /\ T = "signed long long"
  /\ base = 10
  /\ str = Format(Succ(MaxOf("signed long long")), 10)
  /\ rc = -ERANGE
  /\ errno = ERANGE

OutOfRange(text, b) ==
  \/ ~InRange(T, Denoted(text, b))
  \/ (T \in UnsignedTypes /\ Negative(text))

\* C9: a text that is malformed (something is left behind the number) and
\* whose number in front is also out of range (too big for 64 bits, beyond
\* the destination's range, or negative for an unsigned destination) is an
\* invalid format, never out of range.
C9_FormatBeforeRange ==
  (Returned /\ Supported /\ ValidBase(base) /\ ~Numeral(str, base)
     /\ \E k \in 1..(Len(str) - 1) :
          /\ Numeral(SubSeq(str, 1, k), base)
          /\ OutOfRange(SubSeq(str, 1, k), base))
    => rc = -EINVAL

C9_Witness ==
  /\ Returned
  /\ T = "unsigned int"
  /\ base = 10
  /\ str = Format(Pos(Pow2(70)), 10) \o <<"x">>
  /\ rc = -EINVAL
  /\ errno = ERANGE

\* one call, as C10 states it
C10_Step ==
  /\ (pc' = "returned" /\ rc' # 0) => res' = res
  /\ pc' = "trapped" => res' = res
  /\ (pc = "ready" /\ pc' = "returned" /\ rc' = 0)
       => /\ Numeral(str, base')
          /\ res' = Denoted(str, base')
          /\ InRange(T, res')

\* C10: a call that returns an error leaves the caller's variable as it
\* was; the variable is written only on success, and then with the value
\* the whole text denotes, which is in the range of its type.
C10_NoPartialResult == [][C10_Step]_vars

C10_Witness ==
  /\ Returned
  /\ T = "unsigned char"
  /\ base = 10
  /\ str = <<"2", "5", "6">>
  /\ rc = -ERANGE
  /\ res = Before

=============================================================================
